---- MODULE Spec2Model ----
(***************************************************************************)
(* Model of clc (code-line-count): src/src/main.rs.                         *)
(*                                                                         *)
(*   SpecCount : the per-file line counter of count_lines (the closure of  *)
(*               main.rs:265-271 with the regex of main.rs:239), applied   *)
(*               to every byte content up to MaxLen bytes.                 *)
(*   Spec      : count_lines (main.rs:232-281): the parallel walk over a   *)
(*               directory tree, the per-entry callback, the channel and   *)
(*               the summation, for 1..MaxThreads walker threads.          *)
(*   FairSpec  : the actions of Spec on the trees whose leaves are named   *)
(*               a.rs, with the scheduler's fairness (every thread that    *)
(*               can run eventually runs).                                 *)
(*   SpecMain  : the flag loop of main (main.rs:284-355).                  *)
(*                                                                         *)
(* Every specification keeps the variables of the others at their idle     *)
(* values.                                                                 *)
(***************************************************************************)
EXTENDS Integers, Sequences, FiniteSets, TLC

VARIABLES
    bytes,      \* SpecCount: the content fs::read returned (a sequence of byte values)
    result,     \* SpecCount: the closure's value, None before it ran
    cpc,        \* SpecCount: "read" before the closure ran, "counted" after
    tree,       \* Spec: the directory tree, entry -> [kind, name, read]
    exts,       \* Spec: the extension set handed to count_lines (a sequence)
    maxdepth,   \* Spec: Option<usize>, the depth bound handed to the walker
    threads,    \* Spec: the number of walker threads
    stack,      \* Spec: the walker's pending work (entries not yet taken)
    wpc,        \* Spec: per walker thread: "idle", "busy", "done", "panicked"
    cur,        \* Spec: per walker thread: the entry it is visiting
    chan,       \* Spec: the mpsc channel's buffer, in arrival order
    senders,    \* Spec: the live Sender handles: "tx" and the threads' clones
    mpc,        \* Spec: the calling thread's position in count_lines
    total,      \* Spec: the running sum of rx.iter()
    reads,      \* Spec: per entry, how many times fs::read was called on it
    args,       \* SpecMain: Args::parse().args, each argument a sequence of characters
    flags,      \* SpecMain: the arguments starting with '-'
    extargs,    \* SpecMain: the arguments starting with '.'
    cats,       \* SpecMain: the other arguments
    main_exts,  \* SpecMain: main's exts
    main_hidden,    \* SpecMain: main's hidden
    main_git,       \* SpecMain: main's respect_git_ignore
    main_maxdepth,  \* SpecMain: main's maxdepth, Option<usize>
    idx,        \* SpecMain: the index of the next element of the running loop
    mainpc      \* SpecMain: main's position, or how it exited

countVars == <<bytes, result, cpc>>
walkVars == <<tree, exts, maxdepth, threads, stack, wpc, cur, chan, senders, mpc, total, reads>>

mainVars == <<args, flags, extargs, cats, main_exts, main_hidden, main_git, main_maxdepth, idx, mainpc>>

vars == <<countVars, walkVars, mainVars>>

\* Option<T>
None == <<>>
Some(x) == <<x>>
Unwrap(o) == o[1]

-----------------------------------------------------------------------------
(* Bounds *)

MaxLen == 7

MaxThreads == 2

MaxDepthArg == 2

MaxDigits == 3

MaxArgs == 2

-----------------------------------------------------------------------------
(* Bytes.  A content is a sequence of byte values. *)

\* b'\n' of memchr_iter(b'\n', ..) and of ends_with(b"\n")
NL == 10

\* The byte values contents are drawn from: '\n', ' ', 'a', 'b'.
Alphabet == {10, 32, 97, 98}

\* The ASCII members of the regex class \s: \t \n \v \f \r and space.
IsSpace(b) == b \in {9, 10, 11, 12, 13, 32}

RECURSIVE SeqsUpTo(_)
SeqsUpTo(n) ==
    IF n = 0 THEN {<<>>}
    ELSE LET shorter == SeqsUpTo(n - 1)
         IN  shorter \cup {Append(s, b) : s \in {t \in shorter : Len(t) = n - 1}, b \in Alphabet}

Contents == SeqsUpTo(MaxLen)

-----------------------------------------------------------------------------
(* The line counter: re = Regex::new(r"\n\s+"),                             *)
(*   memchr_iter(b'\n', &re.replace_all(&bytes, b"\n")).count()             *)
(*     + usize::from(!bytes.ends_with(b"\n"))                               *)

\* The end of the greedy \s+ that starts at index i: the last index j >= i - 1
\* with s[i..j] all in \s (i - 1 when s[i] is not in \s or i is past the end).
RECURSIVE SpaceRunEnd(_, _)
SpaceRunEnd(s, i) ==
    IF i <= Len(s) /\ IsSpace(s[i]) THEN SpaceRunEnd(s, i + 1) ELSE i - 1

\* Whether the regex \n\s+ matches at index i (a newline and at least one \s after it).
MatchAt_OneOrMoreNewlines(s, i) ==
    i <= Len(s) /\ s[i] = NL /\ i + 1 <= Len(s) /\ s[i + 1] = NL

MatchAt(s, i) ==
    i <= Len(s) /\ s[i] = NL /\ i + 1 <= Len(s) /\ IsSpace(s[i + 1])

\* re.replace_all(&bytes, b"\n") from index i on: leftmost, non-overlapping,
\* greedy matches, each replaced by a single newline; other bytes are copied.
RECURSIVE ReplaceFrom(_, _)
ReplaceFrom(s, i) ==
    IF i > Len(s) THEN <<>>
    ELSE IF MatchAt(s, i)
         THEN <<NL>> \o ReplaceFrom(s, SpaceRunEnd(s, i + 1) + 1)
         ELSE <<s[i]>> \o ReplaceFrom(s, i + 1)

ReplaceAll(s) == ReplaceFrom(s, 1)

\* memchr_iter(b'\n', haystack).count()
RECURSIVE MemchrCount(_)
MemchrCount(s) ==
    IF s = <<>> THEN 0
    ELSE (IF Head(s) = NL THEN 1 ELSE 0) + MemchrCount(Tail(s))

\* bytes.ends_with(b"\n")
EndsWithNL(s) == Len(s) > 0 /\ s[Len(s)] = NL

\* usize::from(!bytes.ends_with(b"\n"))
TrailingLine(s) == IF EndsWithNL(s) THEN 0 ELSE 1

\* The closure of main.rs:267-270.
LineCount(s) == MemchrCount(ReplaceAll(s)) + TrailingLine(s)

-----------------------------------------------------------------------------
(* The directory tree count_lines walks.  The root is a directory; it holds *)
(* the entry f1 and the directory d1, which holds the entry f2.  No name    *)
(* starts with a dot and no .gitignore is present, so the walker's hidden   *)
(* and git_ignore filters (main.rs:243-245) skip nothing.                   *)

Root == "root"
Leaves == {"f1", "f2"}
Dirs == {Root, "d1"}
Entries == Dirs \cup Leaves

Parent == [e \in Entries \ {Root} |->
              CASE e = "f1" -> Root
                [] e = "d1" -> Root
                [] e = "f2" -> "d1"]

Children(d) == {e \in Entries \ {Root} : Parent[e] = d}

\* DirEntry::depth(): the root is at depth 0.
RECURSIVE Depth(_)
Depth(e) == IF e = Root THEN 0 ELSE 1 + Depth(Parent[e])

\* File names, as sequences of characters: "a.rs", "a.RS", "a".
Names == { <<"a", ".", "r", "s">>, <<"a", ".", "R", "S">>, <<"a">> }

\* Two contents with different line counts: "a\n" and "a\n\nb".
SampleContents == { <<97, 10>>, <<97, 10, 10, 98>> }

\* io::Result<Vec<u8>> of fs::read
Err == [ok |-> FALSE, bytes |-> <<>>]
Ok(c) == [ok |-> TRUE, bytes |-> c]
ReadResults == {Err} \cup {Ok(c) : c \in SampleContents}

\* What a leaf can be: a regular file or another file type (a symlink, which
\* the walker does not follow), with a name and the outcome of reading it.
LeafEntries == [kind : {"file", "symlink"}, name : Names, read : ReadResults]

DirEntry(n) == [kind |-> "dir", name |-> n, read |-> Err]

Trees ==
    { [e \in Entries |->
          CASE e = Root -> DirEntry(<<".">>)
            [] e = "d1" -> DirEntry(<<"d", ".", "r", "s">>)
            [] e = "f1" -> l1
            [] e = "f2" -> l2] : l1 \in LeafEntries, l2 \in LeafEntries }

\* The extension sets: &["rs"] and &["rs", ""] (the argument "." gives "").
ExtSets == { << <<"r", "s">> >>, << <<"r", "s">>, <<>> >> }

-----------------------------------------------------------------------------
(* The callback's filter, main.rs:251-263. *)

\* entry.file_type().is_none_or(|ft| !ft.is_file()) is false
IsFile(ent) == ent.kind = "file"

\* The index of the last "." of a name, 0 if there is none.
LastDot(name) ==
    LET dots == {i \in 1..Len(name) : name[i] = "."}
    IN  IF dots = {} THEN 0 ELSE CHOOSE i \in dots : \A j \in dots : j <= i

\* path.extension().and_then(|s| s.to_str()).unwrap_or(""): the part after the
\* final dot of the file name; none ("") when the name has no dot or only a
\* leading one.
Extension(name) ==
    IF LastDot(name) <= 1 THEN <<>>
    ELSE SubSeq(name, LastDot(name) + 1, Len(name))

ToLower(c) == CASE c = "R" -> "r" [] c = "S" -> "s" [] OTHER -> c

StrEq_IgnoreCase(a, b) ==
    /\ Len(a) = Len(b)
    /\ \A i \in 1..Len(a) : ToLower(a[i]) = ToLower(b[i])

\* &str == &str inside exts.contains(&ext)
StrEq(a, b) == a = b

\* exts.contains(&ext)
ExtsContains(es, ext) == \E i \in 1..Len(es) : StrEq(es[i], ext)

\* The entry passes both early returns of the callback and is read.
Matches(ent, es) == IsFile(ent) /\ ExtsContains(es, Extension(ent.name))

-----------------------------------------------------------------------------
(* The parallel walker, WalkBuilder ... .max_depth(maxdepth)                *)
(* .build_parallel().run(..), main.rs:242-277.                              *)

\* The walker reads a directory at depth d only if no bound is set or d is
\* below the bound (it skips the directory's content when depth >= max).
Descends_OneTooDeep(d, md) == md = None \/ d <= Unwrap(md)

Descends(d, md) == md = None \/ d < Unwrap(md)

\* The work a visited entry adds: the children of a directory the walker reads.
NewWork(e, tr, md) ==
    IF tr[e].kind = "dir" /\ Descends(Depth(e), md) THEN Children(e) ELSE {}

Threads == 1..threads

\* The Sender handles: tx of main.rs:240 and the clone of main.rs:249 that
\* thread w's visitor owns.
Tx == <<"tx">>
Clone(w) == <<"tx.clone()", w>>

\* drop(tx), main.rs:279
AfterDropTx_Forgotten(s) == s

AfterDropTx(s) == s \ {Tx}

\* rx.iter() ends: the buffer is empty and every Sender is gone.
RecvDone_Disconnected(c, s) == s = {}

RecvDone(c, s) == c = <<>> /\ s = {}

Accumulate_Overwrite(t, n) == n

\* .map(|n| n as u128).sum()
Accumulate(t, n) == t + n

WalkIdle ==
    /\ tree = <<>>
    /\ exts = <<>>
    /\ maxdepth = None
    /\ threads = 0
    /\ stack = {}
    /\ wpc = <<>>
    /\ cur = <<>>
    /\ chan = <<>>
    /\ senders = {}
    /\ mpc = "off"
    /\ total = 0
    /\ reads = <<>>

CountIdle ==
    /\ bytes = <<>>
    /\ result = None
    /\ cpc = "off"

MainIdle ==
    /\ args = <<>>
    /\ flags = <<>>
    /\ extargs = <<>>
    /\ cats = <<>>
    /\ main_exts = <<>>
    /\ main_hidden = FALSE
    /\ main_git = FALSE
    /\ main_maxdepth = None
    /\ idx = 0
    /\ mainpc = "off"

-----------------------------------------------------------------------------
(* main, main.rs:284-360.  An argument is a sequence of characters. *)

DigitChars == {"0", "1", "2", "9"}

DigitValue(c) == CASE c = "0" -> 0 [] c = "1" -> 1 [] c = "2" -> 2 [] c = "9" -> 9

RECURSIVE CharSeqsUpTo(_)
CharSeqsUpTo(n) ==
    IF n = 0 THEN {<<>>}
    ELSE LET shorter == CharSeqsUpTo(n - 1)
         IN  shorter \cup {Append(s, c) : s \in {t \in shorter : Len(t) = n - 1}, c \in DigitChars}

\* "-d" followed by up to MaxDigits digits.
DepthFlags == { <<"-", "d">> \o ds : ds \in CharSeqsUpTo(MaxDigits) }

OtherFlags ==
    { <<"-", "-", "h", "e", "l", "p">>,
      <<"-", "v">>,
      <<"-", "-", "v", "e", "r", "s", "i", "o", "n">>,
      <<"-", "h">>,
      <<"-", "-", "h", "i", "d", "d", "e", "n">>,
      <<"-", "g">>,
      <<"-", "-", "g", "i", "t">>,
      <<"-", "x">> }

\* ".rs", ".", and the category arguments "rs", "c", "zz".
Operands == { <<".", "r", "s">>, <<".">>, <<"r", "s">>, <<"c">>, <<"z", "z">> }

ArgChoices == DepthFlags \cup OtherFlags \cup Operands

RECURSIVE ArgLists(_)
ArgLists(n) ==
    IF n = 0 THEN {<<>>}
    ELSE LET shorter == ArgLists(n - 1)
         IN  shorter \cup {Append(l, a) : l \in {t \in shorter : Len(t) = n - 1}, a \in ArgChoices}

\* The classifier of main.rs:293-301.
Bucket(arg) ==
    IF Len(arg) > 0 /\ arg[1] = "-" THEN 0
    ELSE IF Len(arg) > 0 /\ arg[1] = "." THEN 1
    ELSE 2

\* partition_n, partition_n.rs:26-35: bucket k keeps, in order, the items the
\* classifier sends to k % N (N = 3).
RECURSIVE PartitionN(_, _)
PartitionN(items, k) ==
    IF items = <<>> THEN <<>>
    ELSE IF Bucket(Head(items)) % 3 = k
         THEN <<Head(items)>> \o PartitionN(Tail(items), k)
         ELSE PartitionN(Tail(items), k)

IsDigit(c) == c \in {"0", "1", "2", "3", "4", "5", "6", "7", "8", "9"}

\* depth_re = Regex::new(r"^\-d[1-9][0-9]+$"), main.rs:289
DepthReIsMatch(flag) ==
    /\ Len(flag) >= 4
    /\ flag[1] = "-"
    /\ flag[2] = "d"
    /\ IsDigit(flag[3]) /\ flag[3] # "0"
    /\ \A i \in 4..Len(flag) : IsDigit(flag[i])

\* flag[2..].parse().ok(), main.rs:318: the decimal value of the digits (a
\* value of up to MaxDigits digits fits usize).
RECURSIVE DecimalValue(_)
DecimalValue(ds) ==
    IF ds = <<>> THEN 0
    ELSE 10 * DecimalValue(SubSeq(ds, 1, Len(ds) - 1)) + DigitValue(ds[Len(ds)])

ParseDepth(flag) == Some(DecimalValue(SubSeq(flag, 3, Len(flag))))

\* CategoryID::from_name and extensions() (cats.rs:63-82) on two rows of the
\* table of main.rs:28-133: Rust (names rust, rs) and C (name c).
FromName(name) ==
    CASE name = <<"r", "u", "s", "t">> -> Some("Rust")
      [] name = <<"r", "s">> -> Some("Rust")
      [] name = <<"c">> -> Some("C")
      [] OTHER -> None

Extensions(cat) ==
    CASE cat = "Rust" -> << <<"r", "s">>, <<"r", "l", "i", "b">> >>
      [] cat = "C" -> << <<"c">>, <<"h">> >>

\* ext.get(1..).unwrap_or(""), main.rs:341
StripDot(ext) == SubSeq(ext, 2, Len(ext))

-----------------------------------------------------------------------------
(* SpecCount: one file's content is read and counted. *)

InitCount ==
    /\ bytes \in Contents
    /\ result = None
    /\ cpc = "read"
    /\ WalkIdle
    /\ MainIdle

\* fs::read(path) returned Ok(bytes); the closure computes the count.
CountFile ==
    /\ cpc = "read"
    /\ result' = Some(LineCount(bytes))
    /\ cpc' = "counted"
    /\ UNCHANGED <<bytes, walkVars, mainVars>>

NextCount == CountFile

SpecCount == InitCount /\ [][NextCount]_vars

-----------------------------------------------------------------------------
(* Spec: count_lines. *)

\* The state after let (tx, rx) = mpsc::channel(), main.rs:240, for a tree, an
\* extension set and a depth bound.
Started(tr, es, md, n) ==
    /\ tree = tr
    /\ exts = es
    /\ maxdepth = md
    /\ threads = n
    /\ stack = {}
    /\ wpc = [w \in 1..n |-> "unspawned"]
    /\ cur = [w \in 1..n |-> Root]
    /\ chan = <<>>
    /\ senders = {Tx}
    /\ mpc = "start"
    /\ total = 0
    /\ reads = [e \in Entries |-> 0]
    /\ CountIdle
    /\ MainIdle

DepthArgs == {None} \cup {Some(n) : n \in 0..MaxDepthArg}

Init ==
    \E tr \in Trees, es \in ExtSets, md \in DepthArgs, n \in 1..MaxThreads :
        Started(tr, es, md, n)

\* The trees whose leaves are all named a.rs, walked with exts = ["rs"]:
\* whether count_lines returns does not hang on the file names.
InitRs ==
    \E tr \in {t \in Trees : \A e \in Leaves : t[e].name = <<"a", ".", "r", "s">>},
       md \in DepthArgs, n \in 1..MaxThreads :
        Started(tr, << <<"r", "s">> >>, md, n)

\* run(|| { let tx = tx.clone(); Box::new(..) }): the builder closure runs once
\* per thread, each visitor owns a clone of tx; the root is the first work
\* item and the threads are spawned.
RunWalk ==
    /\ mpc = "start"
    /\ mpc' = "walking"
    /\ senders' = senders \cup {Clone(w) : w \in Threads}
    /\ stack' = {Root}
    /\ wpc' = [w \in Threads |-> "idle"]
    /\ UNCHANGED <<tree, exts, maxdepth, threads, cur, chan, total, reads, countVars, mainVars>>

\* A thread takes a pending entry (which one is up to the walker).
GetWork(w) ==
    /\ wpc[w] = "idle"
    /\ \E e \in stack :
        /\ stack' = stack \ {e}
        /\ cur' = [cur EXCEPT ![w] = e]
    /\ wpc' = [wpc EXCEPT ![w] = "busy"]
    /\ UNCHANGED <<tree, exts, maxdepth, threads, chan, senders, mpc, total, reads, countVars, mainVars>>

\* The callback returns Continue at main.rs:256 or main.rs:262: the entry is
\* no regular file, or its extension is not in exts.  The walker then reads
\* the entry's children if it is a directory within the depth bound.
VisitSkip(w) ==
    /\ wpc[w] = "busy"
    /\ ~Matches(tree[cur[w]], exts)
    /\ stack' = stack \cup NewWork(cur[w], tree, maxdepth)
    /\ wpc' = [wpc EXCEPT ![w] = "idle"]
    /\ UNCHANGED <<tree, exts, maxdepth, threads, cur, chan, senders, mpc, total, reads, countVars, mainVars>>

\* main.rs:265-275: the file is read, counted and its count sent.  The channel
\* is unbounded, so the send does not wait.
VisitCount(w) ==
    /\ wpc[w] = "busy"
    /\ Matches(tree[cur[w]], exts)
    /\ tree[cur[w]].read.ok
    /\ reads' = [reads EXCEPT ![cur[w]] = @ + 1]
    /\ chan' = Append(chan, LineCount(tree[cur[w]].read.bytes))
    /\ stack' = stack \cup NewWork(cur[w], tree, maxdepth)
    /\ wpc' = [wpc EXCEPT ![w] = "idle"]
    /\ UNCHANGED <<tree, exts, maxdepth, threads, cur, senders, mpc, total, countVars, mainVars>>

\* main.rs:265-266: fs::read fails and the error arm is unreachable!(): the
\* thread panics; unwinding drops its visitor and with it its Sender.
VisitPanic(w) ==
    /\ wpc[w] = "busy"
    /\ Matches(tree[cur[w]], exts)
    /\ ~tree[cur[w]].read.ok
    /\ reads' = [reads EXCEPT ![cur[w]] = @ + 1]
    /\ wpc' = [wpc EXCEPT ![w] = "panicked"]
    /\ senders' = senders \ {Clone(w)}
    /\ UNCHANGED <<tree, exts, maxdepth, threads, stack, cur, chan, mpc, total, countVars, mainVars>>

\* A thread ends when no work is pending and every thread is waiting for
\* work; its visitor, and the Sender in it, is dropped.  A thread that
\* panicked while visiting never reports itself waiting, so the others wait on.
Quit(w) ==
    /\ wpc[w] = "idle"
    /\ stack = {}
    /\ \A v \in Threads : wpc[v] \in {"idle", "done"}
    /\ wpc' = [wpc EXCEPT ![w] = "done"]
    /\ senders' = senders \ {Clone(w)}
    /\ UNCHANGED <<tree, exts, maxdepth, threads, stack, cur, chan, mpc, total, reads, countVars, mainVars>>

Worker(w) == GetWork(w) \/ VisitSkip(w) \/ VisitCount(w) \/ VisitPanic(w) \/ Quit(w)

\* run(..) returns: every thread was joined.
RunReturns ==
    /\ mpc = "walking"
    /\ \A w \in Threads : wpc[w] = "done"
    /\ mpc' = "joined"
    /\ UNCHANGED <<tree, exts, maxdepth, threads, stack, wpc, cur, chan, senders, total, reads, countVars, mainVars>>

\* run(..) joins the threads and unwraps: with every thread ended and one of
\* them panicked, the panic is raised in the caller and count_lines unwinds.
RunPanics ==
    /\ mpc = "walking"
    /\ \A w \in Threads : wpc[w] \in {"done", "panicked"}
    /\ \E w \in Threads : wpc[w] = "panicked"
    /\ mpc' = "panicked"
    /\ UNCHANGED <<tree, exts, maxdepth, threads, stack, wpc, cur, chan, senders, total, reads, countVars, mainVars>>

\* drop(tx), main.rs:279
DropTx ==
    /\ mpc = "joined"
    /\ senders' = AfterDropTx(senders)
    /\ mpc' = "recv"
    /\ UNCHANGED <<tree, exts, maxdepth, threads, stack, wpc, cur, chan, total, reads, countVars, mainVars>>

\* rx.iter() yields the next count, main.rs:280
RecvCount ==
    /\ mpc = "recv"
    /\ chan # <<>>
    /\ total' = Accumulate(total, Head(chan))
    /\ chan' = Tail(chan)
    /\ UNCHANGED <<tree, exts, maxdepth, threads, stack, wpc, cur, senders, mpc, reads, countVars, mainVars>>

\* rx.iter() ends and count_lines returns Ok(total), main.rs:280
RecvEnd ==
    /\ mpc = "recv"
    /\ RecvDone(chan, senders)
    /\ mpc' = "returned"
    /\ UNCHANGED <<tree, exts, maxdepth, threads, stack, wpc, cur, chan, senders, total, reads, countVars, mainVars>>

Main == RunWalk \/ RunReturns \/ RunPanics \/ DropTx \/ RecvCount \/ RecvEnd

Next ==
    \/ RunWalk
    \/ \E w \in Threads : GetWork(w)
    \/ \E w \in Threads : VisitSkip(w)
    \/ \E w \in Threads : VisitCount(w)
    \/ \E w \in Threads : VisitPanic(w)
    \/ \E w \in Threads : Quit(w)
    \/ RunReturns
    \/ RunPanics
    \/ DropTx
    \/ RecvCount
    \/ RecvEnd

Spec == Init /\ [][Next]_vars

\* The operating system runs every thread that can run.
Fairness == WF_vars(Main) /\ \A w \in 1..MaxThreads : WF_vars(w \in Threads /\ Worker(w))

FairSpec == InitRs /\ [][Next]_vars /\ Fairness

-----------------------------------------------------------------------------
(* SpecMain: main up to its call of count_lines. *)

InitMain ==
    /\ args \in ArgLists(MaxArgs)
    /\ flags = <<>>
    /\ extargs = <<>>
    /\ cats = <<>>
    /\ main_exts = <<>>
    /\ main_hidden = FALSE
    /\ main_git = FALSE
    /\ main_maxdepth = None
    /\ idx = 0
    /\ mainpc = "partition"
    /\ CountIdle
    /\ WalkIdle

\* main.rs:292-301
Partition ==
    /\ mainpc = "partition"
    /\ flags' = PartitionN(args, 0)
    /\ extargs' = PartitionN(args, 1)
    /\ cats' = PartitionN(args, 2)
    /\ idx' = 1
    /\ mainpc' = "flags"
    /\ UNCHANGED <<args, main_exts, main_hidden, main_git, main_maxdepth, countVars, walkVars>>

AtFlag == mainpc = "flags" /\ idx <= Len(flags)

IsHelp(f) == f = <<"-", "-", "h", "e", "l", "p">>
IsVersion(f) == f \in { <<"-", "v">>, <<"-", "-", "v", "e", "r", "s", "i", "o", "n">> }
IsHidden(f) == f \in { <<"-", "h">>, <<"-", "-", "h", "i", "d", "d", "e", "n">> }
IsGit(f) == f \in { <<"-", "g">>, <<"-", "-", "g", "i", "t">> }

\* main.rs:307-310
FlagHelp ==
    /\ AtFlag
    /\ IsHelp(flags[idx])
    /\ mainpc' = "exit_help"
    /\ UNCHANGED <<args, flags, extargs, cats, main_exts, main_hidden, main_git, main_maxdepth, idx, countVars, walkVars>>

\* main.rs:311-314
FlagVersion ==
    /\ AtFlag
    /\ IsVersion(flags[idx])
    /\ mainpc' = "exit_version"
    /\ UNCHANGED <<args, flags, extargs, cats, main_exts, main_hidden, main_git, main_maxdepth, idx, countVars, walkVars>>

\* main.rs:315
FlagHidden ==
    /\ AtFlag
    /\ IsHidden(flags[idx])
    /\ main_hidden' = TRUE
    /\ idx' = idx + 1
    /\ UNCHANGED <<args, flags, extargs, cats, main_exts, main_git, main_maxdepth, mainpc, countVars, walkVars>>

\* main.rs:316
FlagGit ==
    /\ AtFlag
    /\ IsGit(flags[idx])
    /\ main_git' = TRUE
    /\ idx' = idx + 1
    /\ UNCHANGED <<args, flags, extargs, cats, main_exts, main_hidden, main_maxdepth, mainpc, countVars, walkVars>>

NoEarlierArm(f) == ~IsHelp(f) /\ ~IsVersion(f) /\ ~IsHidden(f) /\ ~IsGit(f)

\* main.rs:317-319
FlagDepth ==
    /\ AtFlag
    /\ NoEarlierArm(flags[idx])
    /\ DepthReIsMatch(flags[idx])
    /\ main_maxdepth' = ParseDepth(flags[idx])
    /\ idx' = idx + 1
    /\ UNCHANGED <<args, flags, extargs, cats, main_exts, main_hidden, main_git, mainpc, countVars, walkVars>>

\* main.rs:320-325: flag not found
FlagNotFound ==
    /\ AtFlag
    /\ NoEarlierArm(flags[idx])
    /\ ~DepthReIsMatch(flags[idx])
    /\ mainpc' = "exit_flag"
    /\ UNCHANGED <<args, flags, extargs, cats, main_exts, main_hidden, main_git, main_maxdepth, idx, countVars, walkVars>>

\* The flag loop is over.
FlagsDone ==
    /\ mainpc = "flags"
    /\ idx > Len(flags)
    /\ idx' = 1
    /\ mainpc' = "cats"
    /\ UNCHANGED <<args, flags, extargs, cats, main_exts, main_hidden, main_git, main_maxdepth, countVars, walkVars>>

\* main.rs:330-331
CatFound ==
    /\ mainpc = "cats"
    /\ idx <= Len(cats)
    /\ FromName(cats[idx]) # None
    /\ main_exts' = main_exts \o Extensions(Unwrap(FromName(cats[idx])))
    /\ idx' = idx + 1
    /\ UNCHANGED <<args, flags, extargs, cats, main_hidden, main_git, main_maxdepth, mainpc, countVars, walkVars>>

\* main.rs:332-337
CatNotFound ==
    /\ mainpc = "cats"
    /\ idx <= Len(cats)
    /\ FromName(cats[idx]) = None
    /\ mainpc' = "exit_category"
    /\ UNCHANGED <<args, flags, extargs, cats, main_exts, main_hidden, main_git, main_maxdepth, idx, countVars, walkVars>>

\* main.rs:340-342: the whole loop over extargs
PushExts ==
    /\ mainpc = "cats"
    /\ idx > Len(cats)
    /\ main_exts' = main_exts \o [i \in 1..Len(extargs) |-> StripDot(extargs[i])]
    /\ mainpc' = "operands"
    /\ UNCHANGED <<args, flags, extargs, cats, main_hidden, main_git, main_maxdepth, idx, countVars, walkVars>>

\* main.rs:344-347
MissingOperand ==
    /\ mainpc = "operands"
    /\ main_exts = <<>>
    /\ mainpc' = "exit_operand"
    /\ UNCHANGED <<args, flags, extargs, cats, main_exts, main_hidden, main_git, main_maxdepth, idx, countVars, walkVars>>

\* main.rs:349-355: count_lines("./", &exts, hidden, respect_git_ignore, maxdepth)
CallCountLines ==
    /\ mainpc = "operands"
    /\ main_exts # <<>>
    /\ mainpc' = "count_lines"
    /\ UNCHANGED <<args, flags, extargs, cats, main_exts, main_hidden, main_git, main_maxdepth, idx, countVars, walkVars>>

NextMain ==
    \/ Partition
    \/ FlagHelp
    \/ FlagVersion
    \/ FlagHidden
    \/ FlagGit
    \/ FlagDepth
    \/ FlagNotFound
    \/ FlagsDone
    \/ CatFound
    \/ CatNotFound
    \/ PushExts
    \/ MissingOperand
    \/ CallCountLines

SpecMain == InitMain /\ [][NextMain]_vars

-----------------------------------------------------------------------------
(* Claims about the line counter. *)

\* Positions of the newline bytes of s.
Newlines(s) == {i \in 1..Len(s) : s[i] = NL}

\* A newline at i is the first newline of its whitespace run: no earlier
\* newline j is joined to it by whitespace only.
LeadsRun(s, i) ==
    ~ \E j \in 1..(i - 1) : s[j] = NL /\ \A k \in (j + 1)..i : IsSpace(s[k])

\* The newline at i terminates a line made of whitespace only (or empty):
\* every byte between the previous newline (or the start) and i is whitespace.
TerminatesBlankLine(s, i) ==
    \A k \in 1..(i - 1) :
        (\A m \in k..(i - 1) : s[m] # NL) => IsSpace(s[k])

C4_BlankLinesNeverCounted ==
    (cpc = "counted" /\ EndsWithNL(bytes)) =>
        Unwrap(result) = Cardinality(Newlines(bytes))
                 - Cardinality({i \in Newlines(bytes) : TerminatesBlankLine(bytes, i)})

\* C5 (as stated): an empty content gets line count 0.
C5_EmptyFileCountsZero ==
    (cpc = "counted" /\ bytes = <<>>) => result = Some(0)

-----------------------------------------------------------------------------
(* Claims about count_lines.  They are stated on the tree, the extension    *)
(* set and the depth bound alone, without the operators of the model.       *)

\* The final dot-suffix of a name ("" if the name has no dot).
DotSuffix(name) ==
    IF \E k \in 1..Len(name) : name[k] = "."
    THEN LET k == CHOOSE i \in 1..Len(name) :
                      name[i] = "." /\ \A j \in (i + 1)..Len(name) : name[j] # "."
         IN  [i \in 1..(Len(name) - k) |-> name[k + i]]
    ELSE <<>>

\* A regular file whose extension is, character for character, a member of exts.
IsMatchingFile(e) ==
    /\ tree[e].kind = "file"
    /\ \E i \in DOMAIN exts : exts[i] = DotSuffix(tree[e].name)

\* The entry lies within the depth bound (the root is at depth 0).
WithinDepth(e) == maxdepth = None \/ Depth(e) <= maxdepth[1]

Counted == {e \in Entries : IsMatchingFile(e) /\ WithinDepth(e)}

RECURSIVE SumCounts(_)
SumCounts(S) ==
    IF S = {} THEN 0
    ELSE LET e == CHOOSE x \in S : TRUE
         IN  LineCount(tree[e].read.bytes) + SumCounts(S \ {e})

ReadsSucceed == \A e \in Leaves : tree[e].read.ok

\* C1 (as stated): a matching file whose read fails makes nothing crash: no
\* walker thread panics and count_lines does not panic.
C1_ReadFailureTolerated ==
    /\ \A w \in DOMAIN wpc : wpc[w] # "panicked"
    /\ mpc # "panicked"

\* C2: when count_lines returns, Total is the sum of the line counts of the
\* matching regular files within the depth bound, each read exactly once and
\* no other entry read, whatever the number of threads and the interleaving
\* (the sum does not depend on threads or on the arrival order).
C2_TotalIsSumOnce ==
    mpc = "returned" =>
        /\ total = SumCounts(Counted)
        /\ \A e \in Entries : reads[e] = (IF e \in Counted THEN 1 ELSE 0)

C2_Witness ==
    /\ mpc = "returned"
    /\ threads = 2
    /\ Counted = {"f1", "f2"}
    /\ total = 3

\* C3: the summation starts only after every walker thread has ended, and
\* count_lines returns only with every thread ended, no work pending and
\* no sent count left in the channel.
C3_AggregationBarrier ==
    /\ mpc \in {"joined", "recv", "returned"} =>
           /\ \A w \in Threads : wpc[w] = "done"
           /\ stack = {}
    /\ mpc = "returned" => chan = <<>> /\ senders = {}

C3_Witness ==
    /\ mpc = "returned"
    /\ threads = 2
    /\ reads["f1"] = 1
    /\ reads["f2"] = 1
    /\ chan = <<>>

C8_DepthAsStated ==
    /\ (mpc = "returned" /\ ReadsSucceed /\ maxdepth = Some(0)) =>
           \A e \in Leaves : reads[e] = (IF IsMatchingFile(e) /\ Depth(e) = 1 THEN 1 ELSE 0)
    /\ (mpc = "returned" /\ ReadsSucceed /\ maxdepth = Some(1)) =>
           \A e \in Leaves : reads[e] = (IF IsMatchingFile(e) /\ Depth(e) <= 2 THEN 1 ELSE 0)

\* C8 (amended): with the root at depth 0, only entries of depth <= max_depth
\* are ever handed to a thread; when count_lines returns, the files read are
\* exactly the matching regular files of depth <= max_depth: none with
\* max_depth = 0, the root's direct children with max_depth = 1, and one
\* level more with max_depth = 2.
C8_DepthBound ==
    /\ \A e \in stack : WithinDepth(e)
    /\ \A w \in DOMAIN wpc : wpc[w] = "busy" => WithinDepth(cur[w])
    /\ \A e \in Entries : reads[e] > 0 => WithinDepth(e)
    /\ mpc = "returned" =>
           \A e \in Leaves : reads[e] = (IF IsMatchingFile(e) /\ WithinDepth(e) THEN 1 ELSE 0)
    /\ (mpc = "returned" /\ maxdepth = Some(0)) => total = 0

C8_Witness ==
    /\ mpc = "returned"
    /\ maxdepth = Some(1)
    /\ IsMatchingFile("f1")
    /\ IsMatchingFile("f2")
    /\ reads["f1"] = 1
    /\ reads["f2"] = 0

\* C10: on a tree whose reads all succeed, count_lines returns in every fair
\* run, whatever the number of threads; once the walk has ended and tx is
\* dropped no Sender is left, so the receiving loop ends; a thread that holds
\* an entry can always finish its callback (a send never waits).
C10_EventuallyReturns ==
    /\ ReadsSucceed ~> (mpc = "returned")
    /\ [](mpc \in {"recv", "returned"} => senders = {})
    /\ [](\A w \in DOMAIN wpc :
            wpc[w] = "busy" => ENABLED (VisitSkip(w) \/ VisitCount(w) \/ VisitPanic(w)))

C10_Witness ==
    /\ mpc = "returned"
    /\ ReadsSucceed
    /\ threads = 2
    /\ senders = {}
    /\ total = 4

-----------------------------------------------------------------------------
(* Claims about main. *)

\* "-dN" for a positive integer N in decimal: "-d", a digit 1-9, then digits.
IsDepthFlagOf(f) ==
    /\ Len(f) >= 3
    /\ f[1] = "-" /\ f[2] = "d"
    /\ f[3] \in {"1", "2", "3", "4", "5", "6", "7", "8", "9"}
    /\ \A i \in 4..Len(f) : f[i] \in {"0", "1", "2", "3", "4", "5", "6", "7", "8", "9"}

\* The N of "-dN".
RECURSIVE NumberOf(_, _)
NumberOf(f, i) ==
    IF i < 3 THEN 0
    ELSE 10 * NumberOf(f, i - 1)
         + (CHOOSE n \in 0..9 : f[i] = <<"0", "1", "2", "3", "4", "5", "6", "7", "8", "9">>[n + 1])

\* C9 (as stated): a flag -dN, N a positive integer in decimal, is never
\* rejected as an unknown flag, and the depth handed to count_lines is the N
\* of the last such flag.
C9_DepthFlagSetsDepth ==
    /\ mainpc = "exit_flag" => ~IsDepthFlagOf(flags[idx])
    /\ (mainpc = "count_lines" /\ \E i \in DOMAIN flags : IsDepthFlagOf(flags[i])) =>
           LET last == CHOOSE i \in DOMAIN flags :
                           /\ IsDepthFlagOf(flags[i])
                           /\ \A j \in DOMAIN flags : IsDepthFlagOf(flags[j]) => j <= i
           IN  main_maxdepth = Some(NumberOf(flags[last], Len(flags[last])))

====
